---- MODULE Spec2Model ----
(***************************************************************************)
(* Model of the texture part of the nexus addon binding                    *)
(* (nexus/src/api/texture.rs) together with the host side it calls into.   *)
(*                                                                         *)
(* The binding owns no state.  What is modelled is therefore               *)
(*   - the host: its texture table, the reference counts of its native     *)
(*     resources, the calls it has received through the API table, the     *)
(*     callbacks it has been handed;                                       *)
(*   - the addon side: the Texture values the wrappers returned and that   *)
(*     are still alive, the invocations the user callbacks have seen and   *)
(*     how the last run of binding code ended (return value or panic).     *)
(*                                                                         *)
(* Strings are byte sequences.  A Rust str is a sequence of valid UTF-8    *)
(* bytes (it may hold a NUL byte); a C string is a byte sequence that ends *)
(* at its first NUL byte; a C string pointer is either the null pointer    *)
(* (NullStr) or the bytes it points to.                                    *)
(***************************************************************************)
EXTENDS Integers, Sequences, FiniteSets

VARIABLES
    textures,      \* host: texture table, slot -> Texture (repr(C) struct)
    refcount,      \* host: COM reference count of each native resource
    held,          \* addon: live Texture values returned by the wrappers, per resource
    wrapperCalls,  \* addon: number of wrapper invocations made
    hostCalls,     \* host: number of texture API calls received
    lastCall,      \* host: the most recent texture API call received, with its return value
    received,      \* host: the callbacks handed over by load_texture_from_* calls
    invocations,   \* host: number of callback invocations made
    userCalls,     \* addon: number of times a user callback (__CALLBACK) ran
    lastUserCall,  \* addon: arguments of the most recent user callback run
    result         \* addon: how the most recent wrapper or callback run ended:
                   \* the value returned, or the message of the panic

vars == <<textures, refcount, held, wrapperCalls, hostCalls, lastCall, received, invocations,
          userCalls, lastUserCall, result>>

(***************************************************************************)
(* Bounds.                                                                 *)
(***************************************************************************)
MaxCalls == 2        \* wrapper invocations per behaviour
MaxInvocations == 2  \* callback invocations per behaviour

(***************************************************************************)
(* Input domains.                                                          *)
(***************************************************************************)
\* Rust strings handed to the wrappers: "A", "B" and "A\0B" (interior NUL).
Strs == { <<65>>, <<66>>, <<65, 0, 66>> }
\* Paths: "A", "A\0" and a path that is not valid Unicode.
Paths == { <<65>>, <<65, 0>>, <<255>> }
\* Remote / endpoint strings.
Urls == { <<65>>, <<0>> }
\* Byte slices: address of the first byte and the bytes.
Slices == { [addr |-> 100, bytes |-> <<>>], [addr |-> 200, bytes |-> <<7, 0, 9>>] }
ResourceIds == { 101 }
Modules == { 1 }

\* C string pointers the host may pass to a callback: null, "A" and a
\* string that is not valid UTF-8.
NullStr == <<>>
HostStrPtrs == { NullStr, <<65, 0>>, <<255, 0>> }

Slots == { 1, 2 }
TexturePtrs == { 0 } \cup Slots          \* 0 is the null pointer
Resources == { 1 }
TextureValues == { [width |-> 16, height |-> 32, resource |-> 1],
                   [width |-> 32, height |-> 16, resource |-> 0] }
NoTexture == [width |-> 0, height |-> 0, resource |-> 0]

None == [some |-> FALSE, val |-> NoTexture]
Some(v) == [some |-> TRUE, val |-> v]
NoneStr == [some |-> FALSE, val |-> <<>>]
SomeStr(s) == [some |-> TRUE, val |-> s]

\* Option<RawTextureReceiveCallback> values a caller can pass.
NoCallback == "None"
UserCallbacks == { "wrapper_A", "wrapper_B" }   \* two texture_receive! expansions
Callbacks == UserCallbacks \cup { "dummy_receive_texture" }
CallbackOptions == UserCallbacks \cup { NoCallback }

GetFns == { "get", "get_or_create_from_file", "get_or_create_from_resource",
            "get_or_create_from_url", "get_or_create_from_memory" }
LoadFns == { "load_from_file", "load_from_resource", "load_from_url",
             "load_from_memory" }

(***************************************************************************)
(* Byte-string helpers.                                                    *)
(***************************************************************************)
HasNul(s) == \E i \in 1..Len(s) : s[i] = 0
IsUtf8(s) == \A i \in 1..Len(s) : s[i] < 128

RECURSIVE UntilNul(_)
\* The bytes of a C string before its terminating NUL (what strlen/CStr see).
UntilNul(s) == IF s = <<>> \/ Head(s) = 0 THEN <<>>
               ELSE <<Head(s)>> \o UntilNul(Tail(s))

Ok(bytes) == [ok |-> TRUE, val |-> bytes, msg |-> ""]
Err(m) == [ok |-> FALSE, val |-> <<>>, msg |-> m]

\* util::str_to_c: CString::new(string).expect(err_msg)
str_to_c(string, err_msg) ==
    IF HasNul(string) THEN Err(err_msg) ELSE Ok(string \o <<0>>)

\* util::path_to_c: the path as str, then as CString, both .expect(err_msg)
path_to_c(path, err_msg) ==
    IF ~IsUtf8(path) THEN Err(err_msg) ELSE str_to_c(path, err_msg)

\* util::str_from_c: None for a null pointer or bytes that are not UTF-8
str_from_c(ptr) ==
    IF ptr = NullStr THEN NoneStr
    ELSE IF IsUtf8(UntilNul(ptr)) THEN SomeStr(UntilNul(ptr)) ELSE NoneStr

(***************************************************************************)
(* The host side of the API table (api/v2.rs, AddonApi.get_texture ..      *)
(* load_texture_from_memory).  What the host does with a call is           *)
(* host-defined: it may return any texture pointer, null included, and a   *)
(* get_or_create function may have (re)created the texture it returns.     *)
(***************************************************************************)
Call(fn) ==
    [fn |-> fn, identifier |-> <<>>, filename |-> <<>>, resource_id |-> 0,
     module |-> 0, remote |-> <<>>, endpoint |-> <<>>, data |-> 0, size |-> 0,
     callback |-> "", ret |-> 0, repeat |-> FALSE]

\* The texture tables the host may have when `fn` returns `ret`.
HostTables(fn, ret) ==
    IF fn = "get" \/ ret = 0 THEN { textures }
    ELSE { textures } \cup { [textures EXCEPT ![ret] = v] : v \in TextureValues }

\* The host receives `call` through the API table and returns `ret`.
\* `repeat` notes that the call names the same function and the same
\* identifier as the call before it.
HostReceives(call, ret) ==
    /\ lastCall' = [call EXCEPT !.ret = ret,
                                !.repeat = /\ hostCalls > 0
                                           /\ lastCall.fn = call.fn
                                           /\ lastCall.identifier = call.identifier]
    /\ received' = IF call.fn \in LoadFns THEN received \cup { call.callback }
                   ELSE received

(***************************************************************************)
(* Pieces of the wrappers.                                                 *)
(***************************************************************************)
\* <*const Texture>::as_ref: None for the null pointer, else a reference to
\* the host's texture, read from table `tbl`.
as_ref(ptr, tbl) == IF ptr = 0 THEN None ELSE Some(tbl[ptr])

\* A copy that fills the fields in the wrong order.
Texture_clone_swapped(t) ==
    [width |-> t.height, height |-> t.width, resource |-> t.resource]

\* #[derive(Clone)] for Texture: the fields of the copy.
Texture_clone(t) ==
    [width |-> t.width, height |-> t.height, resource |-> t.resource]

\* Option<&Texture>::cloned
cloned(opt) == IF opt.some THEN Some(Texture_clone(opt.val)) ELSE None

\* A copy of the resource pointer that takes no reference (a borrow).
CloneBorrows(t, r) == 0

\* Cloning Option<ID3D11ShaderResourceView> calls AddRef on the COM object:
\* the number of references the clone of texture `t` adds to resource `r`.
CloneAddRef(t, r) == IF t.resource = r THEN 1 ELSE 0

\* identifier.as_ptr(): the address of the CString's bytes
as_ptr(cstring) == cstring.val

\* A size that counts one byte past the slice.
slice_len_past_end(slice) == Len(slice.bytes) + 1

\* memory.as_ptr().cast(), memory.len()
slice_ptr(slice) == slice.addr
slice_len(slice) == Len(slice.bytes)

\* The option handed through as it is: a null function pointer for None.
unwrap_unchecked(callback, default) == callback

\* callback.unwrap_or(dummy_receive_texture)
unwrap_or(callback, default) == IF callback = NoCallback THEN default ELSE callback

Returned(kind, value) == [kind |-> kind, value |-> value, msg |-> ""]
Panicked(msg) == [kind |-> "panic", value |-> None, msg |-> msg]

\* The wrapper panics with `msg` before anything was forwarded.
Panics(msg) ==
    /\ wrapperCalls < MaxCalls
    /\ wrapperCalls' = wrapperCalls + 1
    /\ result' = Panicked(msg)
    /\ UNCHANGED <<textures, refcount, held, hostCalls, lastCall, received,
                   invocations, userCalls, lastUserCall>>

\* unsafe { f(args).as_ref().cloned() }: forward `call`, then clone what the
\* returned pointer points to.  The clone is the caller's to drop.
ForwardGet(call) ==
    /\ wrapperCalls < MaxCalls
    /\ wrapperCalls' = wrapperCalls + 1
    /\ hostCalls' = hostCalls + 1
    /\ \E ret \in TexturePtrs :
        /\ HostReceives(call, ret)
        /\ \E tbl \in HostTables(call.fn, ret) :
            /\ textures' = tbl
            /\ LET texture == cloned(as_ref(ret, tbl)) IN
                /\ result' = Returned("option", texture)
                /\ refcount' = [r \in Resources |->
                                  refcount[r] + IF texture.some
                                                THEN CloneAddRef(texture.val, r)
                                                ELSE 0]
                /\ held' = [r \in Resources |->
                              held[r] + IF texture.some /\ texture.val.resource = r
                                        THEN 1 ELSE 0]
    /\ UNCHANGED <<invocations, userCalls, lastUserCall>>

\* unsafe { f(args, callback.unwrap_or(dummy_receive_texture)) }
ForwardLoad(call) ==
    /\ wrapperCalls < MaxCalls
    /\ wrapperCalls' = wrapperCalls + 1
    /\ hostCalls' = hostCalls + 1
    /\ HostReceives(call, 0)
    /\ result' = Returned("unit", None)
    /\ UNCHANGED <<textures, refcount, held, invocations, userCalls, lastUserCall>>

(***************************************************************************)
(* The wrappers (texture.rs 113-293).                                      *)
(***************************************************************************)
get_texture(identifier) ==
    LET id == str_to_c(identifier, "failed to convert texture identifier") IN
    IF ~id.ok THEN Panics(id.msg)
    ELSE ForwardGet([Call("get") EXCEPT !.identifier = as_ptr(id)])

get_texture_or_create_from_file(identifier, file) ==
    LET id == str_to_c(identifier, "failed to convert texture identifier")
        f == path_to_c(file, "failed to convert texture file")
    IN  IF ~id.ok THEN Panics(id.msg)
        ELSE IF ~f.ok THEN Panics(f.msg)
        ELSE ForwardGet([Call("get_or_create_from_file") EXCEPT
                            !.identifier = as_ptr(id), !.filename = as_ptr(f)])

get_texture_or_create_from_resource(identifier, resource_id, module) ==
    LET id == str_to_c(identifier, "failed to convert texture identifier") IN
    IF ~id.ok THEN Panics(id.msg)
    ELSE ForwardGet([Call("get_or_create_from_resource") EXCEPT
                        !.identifier = as_ptr(id), !.resource_id = resource_id,
                        !.module = module])

get_texture_or_create_from_url(identifier, remote, endpoint) ==
    LET id == str_to_c(identifier, "failed to convert texture identifier")
        r == str_to_c(remote, "failed to convert texture url remote")
        e == str_to_c(endpoint, "failed to convert texture url endpoint")
    IN  IF ~id.ok THEN Panics(id.msg)
        ELSE IF ~r.ok THEN Panics(r.msg)
        ELSE IF ~e.ok THEN Panics(e.msg)
        ELSE ForwardGet([Call("get_or_create_from_url") EXCEPT
                            !.identifier = as_ptr(id), !.remote = as_ptr(r),
                            !.endpoint = as_ptr(e)])

get_texture_or_create_from_memory(identifier, memory) ==
    LET id == str_to_c(identifier, "failed to convert texture identifier") IN
    IF ~id.ok THEN Panics(id.msg)
    ELSE ForwardGet([Call("get_or_create_from_memory") EXCEPT
                        !.identifier = as_ptr(id), !.data = slice_ptr(memory),
                        !.size = slice_len(memory)])

load_texture_from_file(identifier, file, callback) ==
    LET id == str_to_c(identifier, "failed to convert texture identifier")
        f == path_to_c(file, "foo")
    IN  IF ~id.ok THEN Panics(id.msg)
        ELSE IF ~f.ok THEN Panics(f.msg)
        ELSE ForwardLoad([Call("load_from_file") EXCEPT
                            !.identifier = as_ptr(id), !.filename = as_ptr(f),
                            !.callback = unwrap_or(callback, "dummy_receive_texture")])

load_texture_from_resource(identifier, resource_id, module, callback) ==
    LET id == str_to_c(identifier, "failed to convert texture identifier") IN
    IF ~id.ok THEN Panics(id.msg)
    ELSE ForwardLoad([Call("load_from_resource") EXCEPT
                        !.identifier = as_ptr(id), !.resource_id = resource_id,
                        !.module = module,
                        !.callback = unwrap_or(callback, "dummy_receive_texture")])

load_texture_from_url(identifier, remote, endpoint, callback) ==
    LET id == str_to_c(identifier, "failed to convert texture identifier")
        r == str_to_c(remote, "failed to convert texture url remote")
        e == str_to_c(endpoint, "failed to convert texture url endpoint")
    IN  IF ~id.ok THEN Panics(id.msg)
        ELSE IF ~r.ok THEN Panics(r.msg)
        ELSE IF ~e.ok THEN Panics(e.msg)
        ELSE ForwardLoad([Call("load_from_url") EXCEPT
                            !.identifier = as_ptr(id), !.remote = as_ptr(r),
                            !.endpoint = as_ptr(e),
                            !.callback = unwrap_or(callback, "dummy_receive_texture")])

load_texture_from_memory(identifier, data, callback) ==
    LET id == str_to_c(identifier, "failed to convert texture identifier") IN
    IF ~id.ok THEN Panics(id.msg)
    ELSE ForwardLoad([Call("load_from_memory") EXCEPT
                        !.identifier = as_ptr(id), !.data = slice_ptr(data),
                        !.size = slice_len(data),
                        !.callback = unwrap_or(callback, "dummy_receive_texture")])

\* The caller drops a Texture it got from a wrapper: Drop of the COM
\* interface releases the reference its clone took.
drop_texture(r) ==
    /\ held[r] > 0
    /\ held' = [held EXCEPT ![r] = @ - 1]
    /\ refcount' = [refcount EXCEPT ![r] = @ - 1]
    /\ UNCHANGED <<textures, wrapperCalls, hostCalls, lastCall, received,
                   invocations, userCalls, lastUserCall, result>>

(***************************************************************************)
(* Callbacks (texture.rs 295-327).                                         *)
(***************************************************************************)
\* extern "C-unwind" fn dummy_receive_texture(_identifier, _texture) {}
dummy_receive_texture(identifier, texture) ==
    UNCHANGED <<textures, refcount, held, wrapperCalls, hostCalls, lastCall,
                received, userCalls, lastUserCall, result>>

\* An unreadable identifier replaced by the empty string instead of a panic.
identifier_or_default(opt) == IF opt.some THEN Ok(opt.val) ELSE Ok(<<>>)

\* The texture pointer never dereferenced: the callback always sees None.
callback_texture_absent(texture) == None

\* str_from_c(identifier).expect("invalid identifier in texture callback")
expect_identifier(opt) ==
    IF opt.some THEN Ok(opt.val) ELSE Err("invalid identifier in texture callback")

\* let texture = unsafe { texture.as_ref() };
callback_texture(texture) == as_ref(texture, textures)

\* __keybind_callback_wrapper of the texture_receive! expansion `cb`: runs
\* the wrapped __CALLBACK with the identifier and the borrowed texture.
keybind_callback_wrapper(cb, identifier, texture) ==
    LET id == expect_identifier(str_from_c(identifier)) IN
    IF ~id.ok
    THEN /\ result' = Panicked(id.msg)
         /\ UNCHANGED <<textures, refcount, held, wrapperCalls, hostCalls,
                        lastCall, received, userCalls, lastUserCall>>
    ELSE /\ userCalls' = userCalls + 1
         /\ lastUserCall' = [callback |-> cb, identifier |-> id.val,
                             texture |-> callback_texture(texture),
                             texture_ref |-> texture]
         /\ result' = Returned("unit", None)
         /\ UNCHANGED <<textures, refcount, held, wrapperCalls, hostCalls,
                        lastCall, received>>

\* The host invokes a callback it was handed, with whatever identifier and
\* texture pointers it chooses.
HostInvoke(cb, identifier, texture) ==
    /\ cb \in received
    /\ invocations < MaxInvocations
    /\ invocations' = invocations + 1
    /\ IF cb = "dummy_receive_texture"
       THEN dummy_receive_texture(identifier, texture)
       ELSE keybind_callback_wrapper(cb, identifier, texture)

(***************************************************************************)
(* Specifications.                                                         *)
(***************************************************************************)
Init ==
    /\ textures = [s \in Slots |-> IF s = 1
                                   THEN [width |-> 16, height |-> 32, resource |-> 1]
                                   ELSE [width |-> 32, height |-> 16, resource |-> 0]]
    /\ refcount = [r \in Resources |-> 1]
    /\ held = [r \in Resources |-> 0]
    /\ wrapperCalls = 0
    /\ hostCalls = 0
    /\ lastCall = Call("")
    /\ received = {}
    /\ invocations = 0
    /\ userCalls = 0
    /\ lastUserCall = [callback |-> "", identifier |-> <<>>, texture |-> None,
                       texture_ref |-> 0]
    /\ result = Returned("", None)

GetTexture == \E identifier \in Strs : get_texture(identifier)
GetFromFile ==
    \E identifier \in Strs, file \in Paths :
        get_texture_or_create_from_file(identifier, file)
GetFromResource ==
    \E identifier \in Strs, resource_id \in ResourceIds, module \in Modules :
        get_texture_or_create_from_resource(identifier, resource_id, module)
GetFromUrl ==
    \E identifier \in Strs, remote \in Urls, endpoint \in Urls :
        get_texture_or_create_from_url(identifier, remote, endpoint)
GetFromMemory ==
    \E identifier \in Strs, memory \in Slices :
        get_texture_or_create_from_memory(identifier, memory)
LoadFromFile ==
    \E identifier \in Strs, file \in Paths, callback \in CallbackOptions :
        load_texture_from_file(identifier, file, callback)
LoadFromResource ==
    \E identifier \in Strs, resource_id \in ResourceIds, module \in Modules,
       callback \in CallbackOptions :
        load_texture_from_resource(identifier, resource_id, module, callback)
LoadFromUrl ==
    \E identifier \in Strs, remote \in Urls, endpoint \in Urls,
       callback \in CallbackOptions :
        load_texture_from_url(identifier, remote, endpoint, callback)
LoadFromMemory ==
    \E identifier \in Strs, data \in Slices, callback \in CallbackOptions :
        load_texture_from_memory(identifier, data, callback)
DropTexture == \E r \in Resources : drop_texture(r)
Invoke ==
    \E cb \in Callbacks, identifier \in HostStrPtrs, texture \in TexturePtrs :
        HostInvoke(cb, identifier, texture)

Next ==
    \/ GetTexture
    \/ GetFromFile
    \/ GetFromResource
    \/ GetFromUrl
    \/ GetFromMemory
    \/ LoadFromFile
    \/ LoadFromResource
    \/ LoadFromUrl
    \/ LoadFromMemory
    \/ DropTexture
    \/ Invoke

Spec == Init /\ [][Next]_vars

\* The addon calling the wrappers and dropping what they return; the host
\* invokes no callback.
WrapperNext ==
    \/ GetTexture
    \/ GetFromFile
    \/ GetFromResource
    \/ GetFromUrl
    \/ GetFromMemory
    \/ LoadFromFile
    \/ LoadFromResource
    \/ LoadFromUrl
    \/ LoadFromMemory
    \/ DropTexture

SpecWrappers == Init /\ [][WrapperNext]_vars

\* Asynchronous loading: the load wrappers and the host invoking the
\* callbacks it was handed.
CallbackNext ==
    \/ LoadFromFile
    \/ LoadFromResource
    \/ LoadFromUrl
    \/ LoadFromMemory
    \/ Invoke

SpecCallbacks == Init /\ [][CallbackNext]_vars

(***************************************************************************)
(* Properties.                                                             *)
(***************************************************************************)
\* A step in which the host received a call to one of its get functions.
GetStep == hostCalls' = hostCalls + 1 /\ lastCall'.fn \in GetFns

\* C1: when a get wrapper returns, it returns None exactly when the host
\* function returned the null pointer; for a non-null pointer it returns a
\* texture whose width, height and resource are those of the host's texture
\* at that pointer when the host function returned.
C1_ReturnsHostTexture ==
    [][GetStep =>
        /\ result'.kind = "option"
        /\ ~result'.value.some <=> lastCall'.ret = 0
        /\ lastCall'.ret # 0 =>
            /\ result'.value.val.width = textures'[lastCall'.ret].width
            /\ result'.value.val.height = textures'[lastCall'.ret].height
            /\ result'.value.val.resource = textures'[lastCall'.ret].resource]_vars

\* C1 witness: get_texture_or_create_from_url returned slot 2, which the host
\* had re-created with a resource, and the wrapper returned that texture.
C1_Witness ==
    /\ lastCall.fn = "get_or_create_from_url"
    /\ lastCall.ret = 2
    /\ result.kind = "option"
    /\ result.value.some
    /\ result.value.val.resource = 1

\* C2 as stated: the reference count of every resource is the same after a
\* get wrapper returns as it was before the call.
C2_RefcountUnchanged == [][GetStep => refcount' = refcount]_vars

\* C2 amended: after a get wrapper returns, the reference count of the
\* resource of the returned texture is one higher than before the call (the
\* returned Texture is a clone owning one reference); the count of every
\* other resource, and every count when the wrapper returns None or a texture
\* without resource, is unchanged.
C2_CloneTakesOneReference ==
    [][GetStep =>
        \A r \in Resources :
            refcount'[r] = refcount[r] +
                IF lastCall'.ret # 0 /\ textures'[lastCall'.ret].resource = r
                THEN 1 ELSE 0]_vars

\* C2 witness: two get calls returned a texture with resource 1 and both
\* returned values are alive: the host's reference plus two.
C2_Witness ==
    /\ hostCalls = 2
    /\ lastCall.fn \in GetFns
    /\ held[1] = 2
    /\ refcount[1] = 3

\* A wrapper was invoked.
WrapperInvoked ==
    \/ GetTexture
    \/ GetFromFile
    \/ GetFromResource
    \/ GetFromUrl
    \/ GetFromMemory
    \/ LoadFromFile
    \/ LoadFromResource
    \/ LoadFromUrl
    \/ LoadFromMemory

StrConvertible(s) == \A i \in 1..Len(s) : s[i] # 0
PathConvertible(p) == \A i \in 1..Len(p) : p[i] # 0 /\ p[i] < 128

\* The host received exactly one call, to function `fn`, and reads
\* `identifier` at the identifier pointer.
Forwarded(fn, identifier) ==
    /\ hostCalls' = hostCalls + 1
    /\ lastCall'.fn = fn
    /\ lastCall'.identifier # NullStr
    /\ UntilNul(lastCall'.identifier) = identifier

\* The host reads string `s` at pointer `ptr`.
HostReads(ptr, s) == ptr # NullStr /\ UntilNul(ptr) = s

\* The wrapper panicked and the host received nothing.
NothingForwarded ==
    /\ result'.kind = "panic"
    /\ UNCHANGED <<hostCalls, lastCall, textures, received>>

CallbackFrame ==
    <<textures, refcount, held, wrapperCalls, hostCalls, lastCall, received,
      userCalls, lastUserCall, result>>

\* The host received a call to load function `fn` with callback `cb`.
LoadReceived(fn, cb) ==
    /\ lastCall'.fn = fn
    /\ lastCall'.callback = cb
    /\ received' = received \cup { cb }

\* C4: a load wrapper hands the host the caller's callback when there is one
\* and dummy_receive_texture when there is none; invoking
\* dummy_receive_texture, with any identifier and texture pointer, changes no
\* state; every callback the host holds is a callable one, never null.
\* (The first conjunct of the action is about the steps in which the host
\* received a call, the second about those in which it invoked a callback.)
C4_CallbackHandedOver ==
    /\ [](received \subseteq Callbacks)
    /\ [][/\ hostCalls' = hostCalls + 1 =>
              /\ \A id \in Strs, f \in Paths, cb \in UserCallbacks :
                    load_texture_from_file(id, f, cb) =>
                        LoadReceived("load_from_file", cb)
              /\ \A id \in Strs, f \in Paths :
                    load_texture_from_file(id, f, NoCallback) =>
                        LoadReceived("load_from_file", "dummy_receive_texture")
              /\ \A id \in Strs, rid \in ResourceIds, m \in Modules,
                    cb \in UserCallbacks :
                    load_texture_from_resource(id, rid, m, cb) =>
                        LoadReceived("load_from_resource", cb)
              /\ \A id \in Strs, rid \in ResourceIds, m \in Modules :
                    load_texture_from_resource(id, rid, m, NoCallback) =>
                        LoadReceived("load_from_resource", "dummy_receive_texture")
              /\ \A id \in Strs, r \in Urls, e \in Urls, cb \in UserCallbacks :
                    load_texture_from_url(id, r, e, cb) =>
                        LoadReceived("load_from_url", cb)
              /\ \A id \in Strs, r \in Urls, e \in Urls :
                    load_texture_from_url(id, r, e, NoCallback) =>
                        LoadReceived("load_from_url", "dummy_receive_texture")
              /\ \A id \in Strs, mem \in Slices, cb \in UserCallbacks :
                    load_texture_from_memory(id, mem, cb) =>
                        LoadReceived("load_from_memory", cb)
              /\ \A id \in Strs, mem \in Slices :
                    load_texture_from_memory(id, mem, NoCallback) =>
                        LoadReceived("load_from_memory", "dummy_receive_texture")
          /\ invocations' = invocations + 1 =>
              \A id \in HostStrPtrs, tex \in TexturePtrs :
                    HostInvoke("dummy_receive_texture", id, tex) =>
                        UNCHANGED CallbackFrame]_vars

\* C4 witness: a load without callback handed the host dummy_receive_texture,
\* nothing else was handed over, and the host has invoked it.
C4_Witness ==
    /\ received = { "dummy_receive_texture" }
    /\ lastCall.fn = "load_from_url"
    /\ lastCall.callback = "dummy_receive_texture"
    /\ invocations = 1
    /\ userCalls = 0

\* A C string pointer that reads as a string: non-null and valid UTF-8.
ValidIdentifier(ptr) == ptr # NullStr /\ IsUtf8(UntilNul(ptr))

\* C5: each time the host invokes a texture_receive! wrapper with a valid
\* identifier string, the wrapped callback runs exactly once, with that
\* identifier, and with no texture exactly when the texture pointer is null,
\* else with a reference to the host's texture at that pointer.
C5_WrapperRunsCallback ==
    [][\A cb \in UserCallbacks, id \in HostStrPtrs, tex \in TexturePtrs :
         HostInvoke(cb, id, tex) /\ ValidIdentifier(id) =>
            /\ userCalls' = userCalls + 1
            /\ lastUserCall'.callback = cb
            /\ lastUserCall'.identifier = UntilNul(id)
            /\ ~lastUserCall'.texture.some <=> tex = 0
            /\ tex # 0 =>
                /\ lastUserCall'.texture_ref = tex
                /\ lastUserCall'.texture.val = textures[tex]
            /\ UNCHANGED <<textures, refcount, held>>]_vars

\* C5 witness: the wrapped callback of wrapper_B has run twice, the second
\* time with identifier "A" and a reference to the host's texture in slot 1.
C5_Witness ==
    /\ userCalls = 2
    /\ lastUserCall.callback = "wrapper_B"
    /\ lastUserCall.identifier = <<65>>
    /\ lastUserCall.texture.some
    /\ lastUserCall.texture_ref = 1

\* C6: when the host invokes a texture_receive! wrapper with an identifier
\* for which str_from_c yields nothing, the wrapper panics with "invalid
\* identifier in texture callback" and the wrapped callback does not run,
\* whatever the texture pointer.
C6_InvalidIdentifierPanics ==
    [][\A cb \in UserCallbacks, id \in HostStrPtrs, tex \in TexturePtrs :
         HostInvoke(cb, id, tex) /\ ~str_from_c(id).some =>
            /\ result' = Panicked("invalid identifier in texture callback")
            /\ UNCHANGED <<userCalls, lastUserCall>>]_vars

\* C6 witness: the host handed wrapper_A an unreadable identifier, the
\* wrapper panicked and no wrapped callback has run.
C6_Witness ==
    /\ received = { "wrapper_A" }
    /\ invocations = 2
    /\ userCalls = 0
    /\ result = Panicked("invalid identifier in texture callback")

====
